---- MODULE Spec2Model ----
(***************************************************************************)
(* Model of the apartment-management program (src/apartment_login/main.go):*)
(* the apartments table and the handlers of the Apartment Manager window   *)
(* (save, select, delete, import, export), and the users table with the    *)
(* handlers of the User Manager window and Authenticate.                   *)
(*                                                                         *)
(* Text that goes through the CSV codec is a sequence of one-character     *)
(* strings, so that quoting and parsing are computed, not assumed.         *)
(***************************************************************************)
EXTENDS Integers, Sequences, FiniteSets, TLC

VARIABLES
    apartments,        \* rows of table apartments (resident.db)
    currentApartmentID,\* field ID of currentApartment (ShowApartmentManager); the other
                       \* fields of currentApartment are written by Save and by
                       \* a selection and never read by a later handler
    aptConfirmOpen,    \* the "Confirm Delete" dialog of the Apartment Manager is open
    running,           \* the process runs (FALSE once a panic has ended it)
    lastOp             \* history: the last handler that ran, its input and outcome

aptVars == <<apartments, currentApartmentID, aptConfirmOpen, running, lastOp>>

VARIABLES
    users,             \* rows of table users (app.db)
    userSeq,           \* sqlite_sequence of users: the largest id ever assigned
    currentUser,       \* var currentUser User of ShowUserManager
    userConfirmOpen,   \* the "Confirm Delete" dialog of the User Manager is open
    lastUserOp         \* history: the last user handler, its input and outcome

userVars == <<users, userSeq, currentUser, userConfirmOpen, lastUserOp>>

vars == <<apartments, currentApartmentID, aptConfirmOpen, running, lastOp,
          users, userSeq, currentUser, userConfirmOpen, lastUserOp>>

----------------------------------------------------------------------------
(* Texts *)

Empty == <<>>
Bob == <<"B">>
Vacant == <<"V", "a", "c", "a", "n", "t">>

\* the zero value Apartment{}
ZeroApartment == [ID |-> Empty, Owner |-> Empty, Resident |-> Empty, SameFlag |-> FALSE]

----------------------------------------------------------------------------
(* Helper functions *)

boolToInt(b) == IF b THEN 1 ELSE 0

intToBool(i) == i = 1

\* the mutation: the flag is the bare equality, without the empty-owner rule
updateSameFlagNoEmptyRule(apt) == [apt EXCEPT !.SameFlag = (apt.Owner = apt.Resident)]

updateSameFlag(apt) ==
    [apt EXCEPT !.SameFlag = (apt.Owner # Empty /\ apt.Owner = apt.Resident)]

----------------------------------------------------------------------------
(* Apartment database operations.  The table is the sequence of its rows in *)
(* rowid order, the order an unordered SELECT scans them in.                *)

Row(apt) ==
    [id |-> apt.ID, owner |-> apt.Owner, resident |-> apt.Resident,
     same_flag |-> boolToInt(apt.SameFlag)]

\* the mutation: a plain INSERT, which keeps the old row of the same id
ExecInsertKeepingOld(table, apt) == Append(table, Row(apt))

\* INSERT OR REPLACE INTO apartments: the row of the same primary key is
\* deleted and the new row gets a fresh rowid
ExecInsertOrReplace(table, apt) ==
    Append(SelectSeq(table, LAMBDA r : r.id # apt.ID), Row(apt))

\* saveApartment; fail is the storage failing the statement
saveApartment(table, apt, fail) ==
    LET a == updateSameFlag(apt)
    IN  IF fail THEN [err |-> TRUE, table |-> table]
        ELSE [err |-> FALSE, table |-> ExecInsertOrReplace(table, a)]

deleteApartment(table, id, fail) ==
    IF fail THEN [err |-> TRUE, table |-> table]
    ELSE [err |-> FALSE, table |-> SelectSeq(table, LAMBDA r : r.id # id)]

getApartmentCount(table) == Len(table)

\* index is the zero-based OFFSET; past the end Scan fails and the zero value
\* is returned
getApartmentByIndex(table, index) ==
    IF index + 1 \in 1..Len(table)
    THEN LET r == table[index + 1]
         IN  [ID |-> r.id, Owner |-> r.owner, Resident |-> r.resident,
              SameFlag |-> intToBool(r.same_flag)]
    ELSE ZeroApartment

----------------------------------------------------------------------------
(* encoding/csv as exportToCSV and importFromCSV use it: Comma ',',         *)
(* UseCRLF false, FieldsPerRecord 0, LazyQuotes false.                      *)

RECURSIVE Flatten(_)
Flatten(seqs) == IF seqs = <<>> THEN <<>> ELSE Head(seqs) \o Flatten(Tail(seqs))

Quote == "\""

fieldNeedsQuotes(field) ==
    /\ field # Empty
    /\ \/ field = <<"\\", ".">>
       \/ \E i \in 1..Len(field) : field[i] \in {"\n", "\r", Quote, ","}
       \/ field[1] \in {" ", "\t"}

\* the mutation: a field is written as it is, never quoted
writeFieldUnquoted(field) == field

\* one field as csv.Writer.Write writes it
writeField(field) ==
    IF ~fieldNeedsQuotes(field) THEN field
    ELSE <<Quote>>
         \o Flatten([i \in 1..Len(field) |->
                       IF field[i] = Quote THEN <<Quote, Quote>> ELSE <<field[i]>>])
         \o <<Quote>>

\* csv.Writer.Write(record): the fields separated by commas, then a newline
writerWrite(record) ==
    Flatten([i \in 1..Len(record) |->
               (IF i > 1 THEN <<",">> ELSE <<>>) \o writeField(record[i])])
    \o <<"\n">>

\* csv.Reader.readLine: a carriage return before a newline, or ending the
\* input, is dropped
readLineNormalize(t) ==
    LET at == [i \in 1..Len(t) |-> [c |-> t[i], i |-> i]]
        kept == SelectSeq(at, LAMBDA p :
                    ~(p.c = "\r" /\ (p.i = Len(t) \/ t[p.i + 1] = "\n")))
    IN  [k \in 1..Len(kept) |-> kept[k].c]

\* csv.Reader.readRecord from position i of a line that is not empty: the
\* record and the position after its newline.  mode: "field" at the start of
\* a field, "bare" in an unquoted field, "quoted" in a quoted field, "quote"
\* after a quote inside a quoted field.
RECURSIVE readRecord(_, _, _, _, _)
readRecord(t, i, mode, field, rec) ==
    LET n == Len(t)
        atEnd == i > n \/ t[i] = "\n"
        done == Append(rec, field)
        failed == [err |-> TRUE, record |-> <<>>, next |-> i]
        endRecord == [err |-> FALSE, record |-> done, next |-> i + 1]
    IN  CASE mode = "field" ->
               IF ~atEnd /\ t[i] = Quote
               THEN readRecord(t, i + 1, "quoted", Empty, rec)
               ELSE readRecord(t, i, "bare", Empty, rec)
          [] mode = "bare" ->
               IF atEnd THEN endRecord
               ELSE IF t[i] = "," THEN readRecord(t, i + 1, "field", Empty, done)
               ELSE IF t[i] = Quote THEN failed                   \* ErrBareQuote
               ELSE readRecord(t, i + 1, "bare", Append(field, t[i]), rec)
          [] mode = "quoted" ->
               IF i > n THEN failed                               \* ErrQuote
               ELSE IF t[i] = Quote
                    THEN readRecord(t, i + 1, "quote", field, rec)
                    ELSE readRecord(t, i + 1, "quoted", Append(field, t[i]), rec)
          [] mode = "quote" ->
               IF atEnd THEN endRecord
               ELSE IF t[i] = Quote
                    THEN readRecord(t, i + 1, "quoted", Append(field, Quote), rec)
               ELSE IF t[i] = "," THEN readRecord(t, i + 1, "field", Empty, done)
               ELSE failed                                        \* ErrQuote

\* the loop of csv.Reader.ReadAll: empty lines are skipped, and every record
\* must have as many fields as the first (FieldsPerRecord 0)
RECURSIVE readRecords(_, _, _)
readRecords(t, i, recs) ==
    IF i > Len(t) THEN [err |-> FALSE, records |-> recs]
    ELSE IF t[i] = "\n" THEN readRecords(t, i + 1, recs)
    ELSE LET r == readRecord(t, i, "field", Empty, <<>>)
         IN  IF r.err \/ (recs # <<>> /\ Len(r.record) # Len(recs[1]))
             THEN [err |-> TRUE, records |-> <<>>]                \* ErrFieldCount
             ELSE readRecords(t, r.next, Append(recs, r.record))

\* csv.NewReader(file).ReadAll()
ReadAll(text) == readRecords(readLineNormalize(text), 1, <<>>)

----------------------------------------------------------------------------
(* Import/Export functions *)

HeaderRow ==
    << <<"I", "D">>, <<"O", "w", "n", "e", "r">>,
       <<"R", "e", "s", "i", "d", "e", "n", "t">>, <<"S", "a", "m", "e">> >>

\* fmt.Sprintf("%t", b)
formatBool(b) == IF b THEN <<"t", "r", "u", "e">> ELSE <<"f", "a", "l", "s", "e">>

\* the four fields exportToCSV writes for a row of the table
exportRecord(r) == <<r.id, r.owner, r.resident, formatBool(intToBool(r.same_flag))>>

\* the content of the file exportToCSV leaves
exportToCSV(table) ==
    writerWrite(HeaderRow)
    \o Flatten([i \in 1..Len(table) |-> writerWrite(exportRecord(table[i]))])

\* the mutation: an empty resident is imported as it is
importedApartmentNoVacant(row) ==
    updateSameFlag([ID |-> row[1], Owner |-> row[2], Resident |-> row[3],
                    SameFlag |-> FALSE])

\* the Apartment an import builds from a row of at least three columns
importedApartment(row) ==
    updateSameFlag([ID |-> row[1], Owner |-> row[2],
                    Resident |-> IF row[3] = Empty THEN Vacant ELSE row[3],
                    SameFlag |-> FALSE])

NoFailure == [at |-> "none", row |-> 0]

\* the loop over the rows, inside the transaction: tx is the table as the
\* transaction sees it, i the index of the row (the header is rows[1]).
\* fail names the statement the storage fails: the Exec of a data row, or
\* the Commit.  A row of fewer than three columns is an index out of range.
RECURSIVE upsertRows(_, _, _, _)
upsertRows(tx, rows, i, fail) ==
    IF i > Len(rows)
    THEN [result |-> IF fail.at = "commit" THEN "commitError" ELSE "ok", table |-> tx]
    ELSE IF Len(rows[i]) < 3
    THEN [result |-> "panic", table |-> tx]
    ELSE IF fail.at = "exec" /\ fail.row = i - 1
    THEN [result |-> "execError", table |-> tx]
    ELSE upsertRows(ExecInsertOrReplace(tx, importedApartment(rows[i])),
                    rows, i + 1, fail)

\* the mutation: no transaction, every Exec is durable at once
endWithoutTransaction(before, r) == r.table

\* what the table holds once the import has ended: the transaction's writes
\* after Commit, the table as it was after Rollback, after a failed Commit
\* and when the process dies with the transaction open
endTransaction(before, r) == IF r.result = "ok" THEN r.table ELSE before

\* apartmentDB.Begin() and all that follows it
importTransaction(table, rows, fail) ==
    IF fail.at = "begin" THEN [result |-> "beginError", table |-> table]
    ELSE LET r == upsertRows(table, rows, 2, fail)
         IN  [result |-> r.result, table |-> endTransaction(table, r)]

\* excelize GetRows: the cells of each row as strings, the blank cells at
\* the end of a row skipped, and the blank rows at the end of the sheet
trimBlankTail(row) ==
    LET filled == {i \in 1..Len(row) : row[i] # Empty}
    IN  SubSeq(row, 1, IF filled = {} THEN 0
                       ELSE CHOOSE i \in filled : \A j \in filled : j <= i)

GetRows(cells) ==
    LET rows == [i \in 1..Len(cells) |-> trimBlankTail(cells[i])]
        filled == {i \in 1..Len(rows) : rows[i] # <<>>}
    IN  SubSeq(rows, 1, IF filled = {} THEN 0
                        ELSE CHOOSE i \in filled : \A j \in filled : j <= i)

\* book: [hasSheet1, cells]; GetRows fails when the workbook has no Sheet1
importFromExcel(table, book, fail) ==
    IF ~book.hasSheet1 THEN [result |-> "readError", table |-> table]
    ELSE importTransaction(table, GetRows(book.cells), fail)

----------------------------------------------------------------------------
(* Inputs *)

MaxRows == 2

IdTexts == {<<"1">>, <<"2">>}

\* a name with a comma and a quote in it, and one with a line break
Tricky == <<",", Quote>>
CrLf == <<"\r", "\n">>

\* what the user may have typed in the owner and in the resident entry
OwnerTexts == {Empty, Bob, Vacant}
ResidentTexts == {Empty, Bob, Tricky}

\* a row of an input file: the three columns and the Same column, cut to w
Cells(id, owner, resident, w) == SubSeq(<<id, owner, resident, formatBool(FALSE)>>, 1, w)

CsvRows ==
    {Cells(<<"1">>, Bob, Bob, 3), Cells(<<"1">>, Bob, Empty, 3), Cells(<<"2">>, Bob, Empty, 2)}

SheetRows ==
    {Cells(<<"1">>, Bob, Bob, 3), Cells(<<"2">>, Bob, Empty, 3), Cells(<<"2">>, Bob, Empty, 4)}

\* a header as wide as the first data row, then up to MaxRows data rows
GridsOf(rowset) ==
    {<<SubSeq(HeaderRow, 1, IF rows = <<>> THEN 4 ELSE Len(rows[1]))>> \o rows :
        rows \in UNION {[1..n -> rowset] : n \in 0..MaxRows}}

\* the text of a CSV file that holds the rows of grid
CsvText(grid) == Flatten([i \in 1..Len(grid) |-> writerWrite(grid[i])])

\* a CSV file with a quote inside an unquoted field
BareQuoteFile == writerWrite(HeaderRow) \o <<"1", ",", "B", Quote, ",", "B", "\n">>

UserCsvFiles == {CsvText(g) : g \in GridsOf(CsvRows)} \cup {BareQuoteFile}

\* ReadAll of the user's files, computed once
UserCsvRecords == [t \in UserCsvFiles |-> ReadAll(t)]

ReadAllCached(text) ==
    IF text \in UserCsvFiles THEN UserCsvRecords[text] ELSE ReadAll(text)

importFromCSV(table, text, fail) ==
    LET p == ReadAllCached(text)
    IN  IF p.err THEN [result |-> "readError", table |-> table]
        ELSE importTransaction(table, p.records, fail)

\* a workbook without Sheet1, one with a line break in a cell, and one
\* whose data row has two cells
NoSheetBook == [hasSheet1 |-> FALSE, cells |-> <<>>]
CrLfBook == [hasSheet1 |-> TRUE, cells |-> <<HeaderRow, Cells(<<"2">>, Bob, CrLf, 4)>>]
ShortRowBook == [hasSheet1 |-> TRUE, cells |-> <<HeaderRow, Cells(<<"1">>, Bob, Bob, 2)>>]

UserBooks ==
    {[hasSheet1 |-> TRUE, cells |-> g] : g \in GridsOf(SheetRows)}
    \cup {NoSheetBook, CrLfBook, ShortRowBook}

FailPoints ==
    {NoFailure, [at |-> "begin", row |-> 0], [at |-> "commit", row |-> 0]}
    \cup {[at |-> "exec", row |-> k] : k \in 1..MaxRows}


\* the history record of a handler: short is set by an import whose file
\* holds a data row of fewer than three columns, text by an export
Outcome(kind, result) ==
    [kind |-> kind, result |-> result, short |-> FALSE, text |-> <<>>]

----------------------------------------------------------------------------
(* Apartment Manager UI *)

AptReady == running /\ ~aptConfirmOpen

\* the resident the Save handler stores: the owner when "Owner is Resident"
\* is checked, else the resident entry, "Vacant" when that is empty
formResident(ownerText, residentText, checked) ==
    IF checked THEN ownerText
    ELSE IF residentText = Empty THEN Vacant ELSE residentText

\* the Apartment the Save handler builds and passes to saveApartment
formApartment(idText, ownerText, residentText, checked) ==
    updateSameFlag([ID |-> idText, Owner |-> ownerText,
                    Resident |-> formResident(ownerText, residentText, checked),
                    SameFlag |-> FALSE])

SaveApartmentClick(idText, ownerText, residentText, checked, fail) ==
    /\ AptReady
    /\ IF idText = Empty
       THEN /\ lastOp' = Outcome("save", "invalid")
            /\ UNCHANGED <<apartments, currentApartmentID>>
       ELSE LET apt == formApartment(idText, ownerText, residentText, checked)
                r == saveApartment(apartments, apt, fail)
            IN  /\ currentApartmentID' = apt.ID
                /\ apartments' = r.table
                /\ lastOp' = Outcome("save", IF r.err THEN "error" ELSE "ok")
    /\ UNCHANGED <<aptConfirmOpen, running, userVars>>

SelectApartment(index) ==
    /\ AptReady
    /\ index \in 0..(getApartmentCount(apartments) - 1)
    /\ currentApartmentID' = getApartmentByIndex(apartments, index).ID
    /\ lastOp' = Outcome("select", "ok")
    /\ UNCHANGED <<apartments, aptConfirmOpen, running, userVars>>

DeleteApartmentClick ==
    /\ AptReady
    /\ IF currentApartmentID = Empty
       THEN lastOp' = Outcome("delete", "invalid") /\ UNCHANGED aptConfirmOpen
       ELSE lastOp' = Outcome("delete", "confirm") /\ aptConfirmOpen' = TRUE
    /\ UNCHANGED <<apartments, currentApartmentID, running, userVars>>

ConfirmDeleteApartment(ok, fail) ==
    /\ running /\ aptConfirmOpen
    /\ aptConfirmOpen' = FALSE
    /\ IF ok
       THEN LET r == deleteApartment(apartments, currentApartmentID, fail)
            IN  /\ apartments' = r.table
                /\ lastOp' = Outcome("delete", IF r.err THEN "error" ELSE "ok")
       ELSE /\ UNCHANGED apartments
            /\ lastOp' = Outcome("delete", "cancelled")
    /\ UNCHANGED <<currentApartmentID, running, userVars>>

\* rows holds a data row (any row but the first) of fewer than 3 columns
hasShortRow(rows) == \E i \in 2..Len(rows) : Len(rows[i]) < 3

\* the process ends when the import handler panics
AfterImport(kind, r, short) ==
    /\ apartments' = r.table
    /\ running' = (r.result # "panic")
    /\ lastOp' = [Outcome(kind, r.result) EXCEPT !.short = short]
    /\ UNCHANGED <<currentApartmentID, aptConfirmOpen, userVars>>

ImportCsvClick(text, fail) ==
    /\ AptReady
    /\ AfterImport("importCSV", importFromCSV(apartments, text, fail),
                   hasShortRow(ReadAllCached(text).records))

ImportExcelClick(book, fail) ==
    /\ AptReady
    /\ AfterImport("importExcel", importFromExcel(apartments, book, fail),
                   hasShortRow(book.cells))

\* a file of any other extension
ImportOtherClick ==
    /\ AptReady
    /\ lastOp' = Outcome("importOther", "error")
    /\ UNCHANGED <<apartments, currentApartmentID, aptConfirmOpen, running, userVars>>

ExportCsvClick ==
    /\ AptReady
    /\ lastOp' = [Outcome("exportCSV", "ok") EXCEPT !.text = exportToCSV(apartments)]
    /\ UNCHANGED <<apartments, currentApartmentID, aptConfirmOpen, running, userVars>>

\* Back, and APARTMENT MANAGER again: a new window with its own variables
ReopenApartmentManager ==
    /\ AptReady
    /\ currentApartmentID' = ZeroApartment.ID
    /\ lastOp' = Outcome("open", "ok")
    /\ UNCHANGED <<apartments, aptConfirmOpen, running, userVars>>

\* the program is started again after a panic
Restart ==
    /\ ~running
    /\ running' = TRUE
    /\ currentApartmentID' = ZeroApartment.ID
    /\ aptConfirmOpen' = FALSE
    /\ lastOp' = Outcome("open", "ok")
    /\ UNCHANGED <<apartments, userVars>>

----------------------------------------------------------------------------
(* Users: the table, Authenticate and the User Manager UI.  A row of users *)
(* is [id, username, password]; id is the rowid, AUTOINCREMENT.            *)

MaxUserId == 3

\* the zero value User{}
ZeroUser == [ID |-> 0, Username |-> "", Password |-> ""]

UserTexts == {"", "alice", "bob"}
PasswordTexts == {"", "secret1", "secret2"}

\* the rows in the order an unordered SELECT scans them in: by rowid
usersInOrder(table) ==
    LET ids == {r.id : r \in table}
        nth[i \in 1..Cardinality(table)] ==
            CHOOSE r \in table : Cardinality({j \in ids : j < r.id}) = i - 1
    IN  nth

\* the mutation: the password is not compared
AuthenticateNameOnly(table, username, password) ==
    \E r \in table : r.username = username

\* QueryRow(...).Scan(&dbPassword): the first row of that username, if any
Authenticate(table, username, password) ==
    LET rows == SelectSeq(usersInOrder(table), LAMBDA r : r.username = username)
    IN  IF rows = <<>> THEN FALSE            \* sql.ErrNoRows
        ELSE password = rows[1].password

\* the mutation: the column username is not UNIQUE
saveUserNotUnique(table, seq, user, fail) ==
    IF fail THEN [err |-> TRUE, users |-> table, seq |-> seq]
    ELSE IF user.ID = 0
    THEN [err |-> FALSE, seq |-> seq + 1,
          users |-> table \cup {[id |-> seq + 1, username |-> user.Username,
                                 password |-> user.Password]}]
    ELSE [err |-> FALSE, seq |-> seq,
          users |-> {IF r.id = user.ID
                     THEN [r EXCEPT !.username = user.Username, !.password = user.Password]
                     ELSE r : r \in table}]

\* saveUser: INSERT for ID 0, else UPDATE ... WHERE id = ID.  seq is
\* sqlite_sequence: the new id is one more than the largest id ever assigned.
\* A statement that would leave two rows of one username fails (UNIQUE), and
\* so does any statement the storage fails.
saveUser(table, seq, user, fail) ==
    IF fail THEN [err |-> TRUE, users |-> table, seq |-> seq]
    ELSE IF user.ID = 0
    THEN IF \E r \in table : r.username = user.Username
         THEN [err |-> TRUE, users |-> table, seq |-> seq]
         ELSE [err |-> FALSE, seq |-> seq + 1,
               users |-> table \cup {[id |-> seq + 1, username |-> user.Username,
                                      password |-> user.Password]}]
    ELSE IF /\ \E r \in table : r.id = user.ID
            /\ \E r \in table : r.id # user.ID /\ r.username = user.Username
         THEN [err |-> TRUE, users |-> table, seq |-> seq]
         ELSE [err |-> FALSE, seq |-> seq,
               users |-> {IF r.id = user.ID
                          THEN [r EXCEPT !.username = user.Username,
                                         !.password = user.Password]
                          ELSE r : r \in table}]

deleteUser(table, id, fail) ==
    IF fail THEN [err |-> TRUE, users |-> table]
    ELSE [err |-> FALSE, users |-> {r \in table : r.id # id}]

getUserCount(table) == Cardinality(table)

\* index is the zero-based OFFSET; past the end the zero value User{}
getUserByIndex(table, index) ==
    IF index + 1 \in 1..Cardinality(table)
    THEN LET r == usersInOrder(table)[index + 1]
         IN  [ID |-> r.id, Username |-> r.username, Password |-> r.password]
    ELSE ZeroUser

\* the history record of a user handler
UserOutcome(kind, result, username, password) ==
    [kind |-> kind, result |-> result, username |-> username, password |-> password]

\* the Login button
LoginClick(username, password) ==
    /\ ~userConfirmOpen
    /\ lastUserOp' = UserOutcome("login",
                                 IF Authenticate(users, username, password)
                                 THEN "ok" ELSE "error", username, password)
    /\ UNCHANGED <<users, userSeq, currentUser, userConfirmOpen, aptVars>>

SelectUser(index) ==
    /\ ~userConfirmOpen
    /\ index \in 0..(getUserCount(users) - 1)
    /\ currentUser' = getUserByIndex(users, index)
    /\ lastUserOp' = UserOutcome("select", "ok", "", "")
    /\ UNCHANGED <<users, userSeq, userConfirmOpen, aptVars>>

\* Save of the User Manager; an insert past MaxUserId is left out
SaveUserClick(username, password, fail) ==
    /\ ~userConfirmOpen
    /\ IF username = "" \/ password = ""
       THEN /\ lastUserOp' = UserOutcome("save", "invalid", username, password)
            /\ UNCHANGED <<users, userSeq, currentUser>>
       ELSE /\ currentUser.ID = 0 => userSeq < MaxUserId
            /\ LET user == [currentUser EXCEPT !.Username = username,
                                               !.Password = password]
                   r == saveUser(users, userSeq, user, fail)
               IN  /\ currentUser' = user
                   /\ users' = r.users
                   /\ userSeq' = r.seq
                   /\ lastUserOp' = UserOutcome("save", IF r.err THEN "error" ELSE "ok",
                                                username, password)
    /\ UNCHANGED <<userConfirmOpen, aptVars>>

AddNewClick ==
    /\ ~userConfirmOpen
    /\ currentUser' = ZeroUser
    /\ lastUserOp' = UserOutcome("add", "ok", "", "")
    /\ UNCHANGED <<users, userSeq, userConfirmOpen, aptVars>>

DeleteUserClick ==
    /\ ~userConfirmOpen
    /\ IF currentUser.ID = 0
       THEN lastUserOp' = UserOutcome("delete", "invalid", "", "")
            /\ UNCHANGED userConfirmOpen
       ELSE lastUserOp' = UserOutcome("delete", "confirm", "", "")
            /\ userConfirmOpen' = TRUE
    /\ UNCHANGED <<users, userSeq, currentUser, aptVars>>

ConfirmDeleteUser(ok, fail) ==
    /\ userConfirmOpen
    /\ userConfirmOpen' = FALSE
    /\ IF ok
       THEN LET r == deleteUser(users, currentUser.ID, fail)
            IN  /\ users' = r.users
                /\ lastUserOp' = UserOutcome("delete", IF r.err THEN "error" ELSE "ok", "", "")
       ELSE /\ UNCHANGED users
            /\ lastUserOp' = UserOutcome("delete", "cancelled", "", "")
    /\ UNCHANGED <<userSeq, currentUser, aptVars>>

\* Back, and USER MANAGER again: a new window with its own currentUser
ReopenUserManager ==
    /\ ~userConfirmOpen
    /\ currentUser' = ZeroUser
    /\ lastUserOp' = UserOutcome("open", "ok", "", "")
    /\ UNCHANGED <<users, userSeq, userConfirmOpen, aptVars>>

----------------------------------------------------------------------------
\* the files the Import dialog can be pointed at: the user's, and the file
\* the last export wrote
CsvFiles == UserCsvFiles \cup (IF lastOp.kind = "exportCSV" THEN {lastOp.text} ELSE {})

Init ==
    /\ apartments = <<>>
    /\ currentApartmentID = ZeroApartment.ID
    /\ aptConfirmOpen = FALSE
    /\ running = TRUE
    /\ lastOp = Outcome("open", "ok")
    /\ users = {}
    /\ userSeq = 0
    /\ currentUser = ZeroUser
    /\ userConfirmOpen = FALSE
    /\ lastUserOp = UserOutcome("open", "ok", "", "")

Next ==
    \/ \E id \in IdTexts, o \in OwnerTexts, r \in ResidentTexts, fail \in BOOLEAN :
         SaveApartmentClick(id, o, r, FALSE, fail)
    \/ \E id \in IdTexts, o \in OwnerTexts, fail \in BOOLEAN :
         SaveApartmentClick(id, o, o, TRUE, fail)
    \/ SaveApartmentClick(Empty, Empty, Empty, FALSE, FALSE)
    \/ \E i \in 0..Cardinality(IdTexts) : SelectApartment(i)
    \/ DeleteApartmentClick
    \/ \E ok \in BOOLEAN, fail \in BOOLEAN : ConfirmDeleteApartment(ok, fail)
    \/ \E text \in CsvFiles, fail \in FailPoints : ImportCsvClick(text, fail)
    \/ \E book \in UserBooks, fail \in FailPoints : ImportExcelClick(book, fail)
    \/ ImportOtherClick
    \/ ExportCsvClick
    \/ ReopenApartmentManager
    \/ Restart

Spec == Init /\ [][Next]_vars

NextUsers ==
    \/ \E u \in UserTexts, p \in PasswordTexts : LoginClick(u, p)
    \/ \E i \in 0..MaxUserId : SelectUser(i)
    \/ \E u \in UserTexts, p \in PasswordTexts, fail \in BOOLEAN : SaveUserClick(u, p, fail)
    \/ AddNewClick
    \/ DeleteUserClick
    \/ \E ok \in BOOLEAN, fail \in BOOLEAN : ConfirmDeleteUser(ok, fail)
    \/ ReopenUserManager

SpecUsers == Init /\ [][NextUsers]_vars

----------------------------------------------------------------------------
(* Properties of the occupancy store *)

RowsOf(table) == {table[i] : i \in 1..Len(table)}

\* the flag the record of these names must carry
DerivedFlag(owner, resident) == IF owner # Empty /\ owner = resident THEN 1 ELSE 0

\* C1: in every reachable state, whatever saves, CSV imports, spreadsheet
\* imports and deletes led to it, every row of apartments carries the flag 1
\* exactly when its owner is not empty and equals its resident, and 0 otherwise.
SameFlagInvariant ==
    \A r \in RowsOf(apartments) :
        /\ r.same_flag \in {0, 1}
        /\ (r.same_flag = 1) <=> (r.owner # Empty /\ r.owner = r.resident)

\* C1, the case: an import has just succeeded and the store holds a row whose
\* flag is set next to a row whose owner and resident are both empty
SameFlagWitness ==
    /\ lastOp.kind \in {"importCSV", "importExcel"} /\ lastOp.result = "ok"
    /\ \E r \in RowsOf(apartments) : r.same_flag = 1
    /\ \E r \in RowsOf(apartments) : r.owner = Empty /\ r.resident = Empty

\* C2 as stated: no row of apartments has an empty resident.
ResidentNeverEmpty == \A r \in RowsOf(apartments) : r.resident # Empty

\* C2, amended: a row of apartments has an empty resident only if its owner
\* is empty too, and then its flag is 0 -- the record a save with "Owner is
\* Resident" checked and an empty owner stores; every other save and every
\* import stores a resident that is not empty.
ResidentEmptyOnlyWithEmptyOwner ==
    \A r \in RowsOf(apartments) :
        r.resident = Empty => (r.owner = Empty /\ r.same_flag = 0)

\* C2, the case: a save has just stored a row with an empty resident while
\* another row holds the "Vacant" an empty resident was replaced by
ResidentEmptyWitness ==
    /\ lastOp.kind = "save" /\ lastOp.result = "ok"
    /\ \E r \in RowsOf(apartments) : r.id = currentApartmentID /\ r.resident = Empty
    /\ \E r \in RowsOf(apartments) : r.resident = Vacant

\* the record a data row of three columns or more stands for
RecordOf(row) ==
    LET resident == IF row[3] = Empty THEN Vacant ELSE row[3]
    IN  [id |-> row[1], owner |-> row[2], resident |-> resident,
         same_flag |-> DerivedFlag(row[2], resident)]

\* after holds every data row of rows (the first row is the header) upserted
\* into before: one row per id, the last data row of an id decides its record,
\* and the rows of the other ids are those of before
EveryRowUpserted(before, rows, after) ==
    LET data == 2..Len(rows)
        ids == {rows[i][1] : i \in data}
        lastOf(id) == CHOOSE i \in data :
                          rows[i][1] = id /\ \A j \in data : rows[j][1] = id => j <= i
    IN  /\ \A i \in data : Len(rows[i]) >= 3
        /\ RowsOf(after) = {r \in RowsOf(before) : r.id \notin ids}
                           \cup {RecordOf(rows[lastOf(id)]) : id \in ids}
        /\ Len(after) = Cardinality(RowsOf(after))

AllOrNothingResult(before, rows, r) ==
    IF r.result = "ok" THEN EveryRowUpserted(before, rows, r.table)
    ELSE r.table = before

\* C3: from every reachable store, for every CSV file and every workbook and
\* wherever the storage fails (Begin, the upsert of row N, Commit) or a row
\* is too short: an import that does not end successfully leaves the store
\* as it was before the import, and one that ends successfully has upserted
\* every data row.
ImportAllOrNothing ==
    /\ \A text \in CsvFiles, fail \in FailPoints :
         AllOrNothingResult(apartments, ReadAllCached(text).records,
                            importFromCSV(apartments, text, fail))
    /\ \A book \in UserBooks, fail \in FailPoints :
         AllOrNothingResult(apartments,
                            IF book.hasSheet1 THEN GetRows(book.cells) ELSE <<>>,
                            importFromExcel(apartments, book, fail))

\* C3, the case: an import into a store that holds a row has just failed at
\* the upsert of a row, and there is a file whose second upsert fails after
\* the first has changed the table inside the transaction
ImportAllOrNothingWitness ==
    /\ lastOp.kind \in {"importCSV", "importExcel"} /\ lastOp.result = "execError"
    /\ apartments # <<>>
    /\ \E text \in UserCsvFiles :
         LET rows == ReadAllCached(text).records
             r == upsertRows(apartments, rows, 2, [at |-> "exec", row |-> 2])
         IN  r.result = "execError" /\ r.table # apartments

ImportKinds == {"importCSV", "importExcel"}

ImportErrors == {"readError", "beginError", "execError", "commitError"}

\* C4 as stated: an import (CSV or spreadsheet) whose file holds a data row
\* of fewer than three columns ends by returning an error to its caller.
ShortRowReturnsError ==
    (lastOp.kind \in ImportKinds /\ lastOp.short) => lastOp.result \in ImportErrors

\* C4, the failing case: the import of a file with a short data row has ended
\* the process with an index out of range
ShortRowPanics ==
    lastOp.kind \in ImportKinds /\ lastOp.short /\ lastOp.result = "panic" /\ ~running

Triples(table) ==
    {<<r.id, r.owner, r.resident>> : r \in RowsOf(table)}

\* the store an export followed by an import into an empty store leaves
ReimportOf(text) == importFromCSV(<<>>, text, NoFailure)

hasCrLf(text) == \E i \in 1..(Len(text) - 1) : text[i] = "\r" /\ text[i + 1] = "\n"

NoCrLfStored ==
    \A r \in RowsOf(apartments) : ~hasCrLf(r.id) /\ ~hasCrLf(r.owner) /\ ~hasCrLf(r.resident)

\* a record as it comes back: an empty resident has become "Vacant"
CameBack(r) == [r EXCEPT !.resident = IF r.resident = Empty THEN Vacant ELSE r.resident]

Candidates ==
    [ID : IdTexts, Owner : OwnerTexts, Resident : ResidentTexts \cup {Vacant},
     SameFlag : BOOLEAN]

\* C7: from every reachable store and for every record, saveApartment does
\* not fail when the id is already there, leaves exactly one row of that id
\* holding the record's owner, resident and derived flag, leaves the rows of
\* the other ids as they were, and a second call with the same record leaves
\* the store as the first call left it.
UpsertReplacesAndIsIdempotent ==
    \A apt \in Candidates :
        LET once == saveApartment(apartments, apt, FALSE)
            twice == saveApartment(once.table, apt, FALSE)
            others(table) == SelectSeq(table, LAMBDA r : r.id # apt.ID)
        IN  /\ ~once.err /\ ~twice.err
            /\ Cardinality({i \in 1..Len(once.table) : once.table[i].id = apt.ID}) = 1
            /\ [id |-> apt.ID, owner |-> apt.Owner, resident |-> apt.Resident,
                same_flag |-> DerivedFlag(apt.Owner, apt.Resident)] \in RowsOf(once.table)
            /\ others(once.table) = others(apartments)
            /\ twice.table = once.table

\* C7, the case: a save has just succeeded in a store of two rows; the saved
\* row, with a derived flag of 0, is the last row of the table
UpsertWitness ==
    /\ lastOp.kind = "save" /\ lastOp.result = "ok"
    /\ Len(apartments) = 2
    /\ apartments[2].id = currentApartmentID
    /\ apartments[2].owner = Vacant /\ apartments[2].same_flag = 0

\* C9 as stated: from every reachable store and for every id, owner and
\* resident, the CSV import and the spreadsheet import of the one row
\* (id, owner, resident) succeed and leave the store a Save of the same three
\* texts with "Owner is Resident" unchecked leaves.
ImportEqualsManualSave ==
    \A id \in IdTexts, owner \in OwnerTexts, resident \in ResidentTexts :
        LET manual == saveApartment(apartments,
                                    formApartment(id, owner, resident, FALSE), FALSE)
            grid == <<SubSeq(HeaderRow, 1, 3), Cells(id, owner, resident, 3)>>
            csv == importFromCSV(apartments, CsvText(grid), NoFailure)
            xlsx == importFromExcel(apartments, [hasSheet1 |-> TRUE, cells |-> grid],
                                    NoFailure)
        IN  /\ csv.result = "ok" /\ csv.table = manual.table
            /\ xlsx.result = "ok" /\ xlsx.table = manual.table

\* C9, the failing case: the spreadsheet import of a row of three columns
\* whose resident cell is blank has ended the process, nothing stored
BlankResidentCellPanics ==
    /\ lastOp.kind = "importExcel" /\ ~lastOp.short /\ lastOp.result = "panic"
    /\ ~running

----------------------------------------------------------------------------
(* Properties of the credential store *)

\* C6: in every reachable state of the users table and for every name and
\* password, Authenticate yields a boolean, TRUE exactly when a row of users
\* has that username and that password; and the Login button reported
\* accordingly.
AuthenticateIffCredential ==
    /\ \A u \in UserTexts, p \in PasswordTexts :
         /\ Authenticate(users, u, p) \in BOOLEAN
         /\ Authenticate(users, u, p)
              <=> \E r \in users : r.username = u /\ r.password = p
    /\ lastUserOp.kind = "login" =>
         ((lastUserOp.result = "ok")
            <=> \E r \in users : /\ r.username = lastUserOp.username
                                 /\ r.password = lastUserOp.password)

\* C6, the case: after adds, an update or a delete, a login with the name of
\* a stored credential and the password of another has just been refused
AuthenticateWitness ==
    /\ lastUserOp.kind = "login" /\ lastUserOp.result = "error"
    /\ \E r \in users : r.username = lastUserOp.username
    /\ \E r \in users : r.password = lastUserOp.password
    /\ userSeq > Cardinality(users)

\* the Users saveUser may be handed
UserCandidates ==
    [ID : 0..MaxUserId, Username : UserTexts \ {""}, Password : PasswordTexts \ {""}]

\* writing user would leave two rows of one username: an insert of a name
\* that is there, or an update of a row to the name of another row
WouldDuplicate(table, user) ==
    IF user.ID = 0 THEN \E r \in table : r.username = user.Username
    ELSE /\ \E r \in table : r.id = user.ID
         /\ \E r \in table : r.id # user.ID /\ r.username = user.Username

\* C8: in every reachable state no two rows of users have the same username,
\* and for every User, saveUser of one that would leave two rows of one
\* username (an insert for ID 0, an update otherwise) returns an error and
\* leaves the table as it was; and a Save that has just been about to leave
\* two such rows reported an error.
UsernameUnique ==
    /\ \A a \in users, b \in users : a.username = b.username => a = b
    /\ \A user \in UserCandidates :
         WouldDuplicate(users, user) =>
            LET r == saveUser(users, userSeq, user, FALSE)
            IN  r.err /\ r.users = users /\ r.seq = userSeq
    /\ (lastUserOp.kind = "save" /\ lastUserOp.result = "ok") =>
         Cardinality({r \in users : r.username = lastUserOp.username}) <= 1

\* C8, the case: the update of a stored credential to the name of another
\* stored credential has just been refused
UsernameUniqueWitness ==
    /\ lastUserOp.kind = "save" /\ lastUserOp.result = "error"
    /\ currentUser.ID # 0
    /\ WouldDuplicate(users, currentUser)
    /\ Cardinality(users) = 2

\* C10 as stated: whenever a Save of the User Manager with a username and a
\* password that are not empty has reported no error, the users table holds
\* a row with exactly that username and that password.
SavedUserIsStored ==
    (lastUserOp.kind = "save" /\ lastUserOp.result = "ok") =>
        \E r \in users : /\ r.username = lastUserOp.username
                          /\ r.password = lastUserOp.password

\* C10, the failing case: a Save has reported no error while currentUser
\* names a row that a confirmed Delete removed, and nothing is stored
SaveAfterDeleteStoresNothing ==
    /\ lastUserOp.kind = "save" /\ lastUserOp.result = "ok"
    /\ currentUser.ID # 0
    /\ \A r \in users : r.id # currentUser.ID
    /\ \A r \in users : r.username # lastUserOp.username

====
